---- MODULE Spec2Model ----
(***************************************************************************)
(* A model of jira_stat.py: the reconstruction of per-ticket timelines     *)
(* from a JIRA changelog, the daily snapshot table (extract_field_counts)  *)
(* and the daily IN/OUT flow table (extract_flow_counts), as driven by     *)
(* main().                                                                 *)
(*                                                                         *)
(* Time.  A timestamp is what datetime.fromisoformat returns: a wall-clock *)
(* date and hour together with a UTC offset.  Calendar dates are day       *)
(* numbers (day 1 is 2024-01-01); an instant is a number of hours since    *)
(* day 0, 00:00 UTC.  .date() is the wall-clock date, comparisons of       *)
(* datetimes compare instants.                                             *)
(*                                                                         *)
(* Labels.  Field values are strings; Python's None is the value None      *)
(* below, which is no label of the input.                                  *)
(***************************************************************************)
EXTENDS Integers, Sequences, FiniteSets, TLC

\* ------------------------------------------------------------------ bounds

\* At most MaxIssues issues in the input document.
MaxIssues == 2

\* At most MaxHist changelog histories in the input document.
MaxHist == 2

\* ------------------------------------------------------------- basic values

\* Python's None (JSON null, or a missing key read with .get).
None == "<None>"

\* The field analysed: the default of the field_id argument.
FieldId == "status"

\* The order of str under <, restricted to the labels of the model:
\* code-point order, upper case before lower case, the empty string first.
LexOrder == <<"", "Closed", "Done", "InProgress", "Low", "Open">>

RECURSIVE IndexOf(_, _, _)
IndexOf(seq, x, i) ==
    IF i > Len(seq) THEN 0
    ELSE IF seq[i] = x THEN i ELSE IndexOf(seq, x, i + 1)

\* a < b for two str values.
StrLess(a, b) == IndexOf(LexOrder, a, 1) < IndexOf(LexOrder, b, 1)

\* Truthiness of a field value: None and the empty string are falsy.
Truthy(x) == x # None /\ x # ""

\* x or None
OrNone(x) == IF Truthy(x) THEN x ELSE None

\* x or ''
OrEmpty(x) == IF Truthy(x) THEN x ELSE ""

\* ------------------------------------------------------------------- time

\* The UTC offset, in hours, of an ISO 8601 zone designator.
UtcOffset(tz) ==
    CASE tz = "+09:00" -> 9
      [] tz = "-10:00" -> 0 - 10
      [] OTHER -> 0

\* parse_iso: a timestamp without a zone designator is taken as UTC.
parse_iso(s) == IF s.tz = "" THEN [s EXCEPT !.tz = "+00:00"] ELSE s

\* The instant of an aware datetime, in hours since day 0, 00:00 UTC.
Instant(dt) == dt.date * 24 + dt.hour - UtcOffset(dt.tz)

\* dt.date(): the wall-clock date, in the datetime's own zone.
DateOf(dt) == dt.date

\* datetime.combine(d, time(0), tzinfo=timezone.utc)
MidnightUTC(d) == [date |-> d, hour |-> 0, tz |-> "+00:00"]

\* ------------------------------------------------------------------ input

\* A timestamp string of the input document.
Stamp(d, h, tz) == [date |-> d, hour |-> h, tz |-> tz]

\* One changelog item.
Item(f, from, to) == [field |-> f, fromString |-> from, toString |-> to]

\* The issues of the input without their changelog: the "created" string and
\* the current value of the analysed field.  One is created at midnight UTC of
\* day 1 and holds a scalar; the other is created at 01:00 of day 2 at +09:00,
\* which is 16:00 UTC of day 1, and holds a structured value ({"name": ...}).
IssueHeads ==
    { [created |-> Stamp(1, 0, "+00:00"), value |-> [isdict |-> FALSE, v |-> "Open"]],
      [created |-> Stamp(2, 1, "+09:00"), value |-> [isdict |-> TRUE, v |-> "Closed"]] }

\* The changelog histories of the input: a timestamp and its items.
Histories ==
    { [created |-> Stamp(3, 10, "+00:00"),
       items |-> <<Item("status", "Open", "InProgress")>>],
      [created |-> Stamp(5, 9, "+00:00"),
       items |-> <<Item("status", "InProgress", "Done")>>],
      [created |-> Stamp(3, 19, "+09:00"),
       items |-> <<Item("priority", "Low", "High"),
                   Item("status", "InProgress", "")>>],
      [created |-> Stamp(1, 17, ""),
       items |-> <<Item("status", None, "Open")>>],
      [created |-> Stamp(1, 0, "+00:00"),
       items |-> <<Item("status", "Done", "Open")>>] }

\* The issues with exactly n histories (the key is given by IssuesOf).
IssueBodies(n) ==
    { [created |-> hd.created, value |-> hd.value, histories |-> h] :
        hd \in IssueHeads, h \in [1..n -> Histories] }

\* The issue lists of k issues with `budget` histories in all at most;
\* issue i has key i (standing for the JIRA key "K-i").
RECURSIVE IssuesOf(_, _)
IssuesOf(k, budget) ==
    IF k = 0 THEN {<<>>}
    ELSE UNION { { Append(rest, [key |-> k, created |-> b.created,
                                 value |-> b.value, histories |-> b.histories]) :
                     rest \in IssuesOf(k - 1, budget - n), b \in IssueBodies(n) } :
                 n \in 0..budget }

\* The "issues" lists of the input documents of the model.
Inputs == UNION { IssuesOf(k, MaxHist) : k \in 0..MaxIssues }

\* The transition matrix files the operator may have curated before a run:
\* the matrix of the worked example, and one with every action in it.
Matrices ==
    { [s \in {"Open", "InProgress"} |->
          IF s = "Open" THEN [t \in {"InProgress"} |-> "OUT"]
          ELSE [t \in {"Done"} |-> "IN"]],
      [s \in {"", "Open", "InProgress"} |->
          IF s = "" THEN [t \in {"Open"} |-> "INOUT"]
          ELSE IF s = "Open" THEN [t \in {"InProgress"} |-> "IN"]
          ELSE [t \in {"", "Done"} |-> IF t = "" THEN "OUT" ELSE "IGNORE"]] }

\* The UTC dates on which the program is run.
Todays == {2, 7}

\* ------------------------------------------------------------------ state

VARIABLES
    issues,             \* the "issues" list of the input document
    today,              \* datetime.now(timezone.utc).date() during the run
    configExists,       \* os.path.exists('in-out_config.json')
    config,             \* the content of in-out_config.json
    pc,                 \* the position of main()
    ticket_events,      \* extract_field_counts: key -> sorted (ts, status) list
    all_statuses,       \* extract_field_counts: the labels seen
    csv_files,          \* main: the files extract_field_counts returned
    stat_csv,           \* stat_status.csv: <<>> when not written, else <<table>>
    transitions,        \* extract_flow_counts: (key, date, from, to) list
    ticket_date_counts, \* extract_flow_counts: (key, date) -> raw IN/OUT counts
    flow_counts,        \* extract_flow_counts: date -> IN/OUT
    flow_csv            \* in-out_flow.csv: <<>> when not written, else <<table>>

vars ==
    <<issues, today, configExists, config, pc, ticket_events, all_statuses,
      csv_files, stat_csv, transitions, ticket_date_counts, flow_counts, flow_csv>>

\* ------------------------------------------------- extract_field_counts

\* list.sort(key=lambda x: x[0]) on tuples whose first component is a
\* datetime: a stable sort by instant.  Insert(sorted, e) places e after
\* every element that is not later than it.
\* InsertByInstant placing e before the elements of its own instant: a sort
\* that is not stable, the later of two tied elements coming first.
RECURSIVE InsertByInstantBeforeTies(_, _)
InsertByInstantBeforeTies(sorted, e) ==
    IF sorted = <<>> THEN <<e>>
    ELSE IF Instant(sorted[Len(sorted)][1]) < Instant(e[1]) THEN Append(sorted, e)
    ELSE Append(InsertByInstantBeforeTies(SubSeq(sorted, 1, Len(sorted) - 1), e),
                sorted[Len(sorted)])

RECURSIVE InsertByInstant(_, _)
InsertByInstant(sorted, e) ==
    IF sorted = <<>> THEN <<e>>
    ELSE IF Instant(sorted[Len(sorted)][1]) <= Instant(e[1]) THEN Append(sorted, e)
    ELSE Append(InsertByInstant(SubSeq(sorted, 1, Len(sorted) - 1), e),
                sorted[Len(sorted)])

RECURSIVE SortByInstant(_)
SortByInstant(seq) ==
    IF seq = <<>> THEN <<>>
    ELSE InsertByInstant(SortByInstant(SubSeq(seq, 1, Len(seq) - 1)), seq[Len(seq)])

\* The (ts, from_s, to_s) tuples of the items of one history that are about
\* the analysed field, in the order of the items.
RECURSIVE ItemEvents(_, _)
ItemEvents(ts, items) ==
    IF items = <<>> THEN <<>>
    ELSE LET item == items[1]
             rest == ItemEvents(ts, Tail(items))
         IN IF item.field = FieldId
            THEN <<<<ts, OrNone(item.fromString), OrNone(item.toString)>>>> \o rest
            ELSE rest

\* history_events before the sort: the histories in the order of the document.
RECURSIVE CollectHistoryEvents(_)
CollectHistoryEvents(histories) ==
    IF histories = <<>> THEN <<>>
    ELSE ItemEvents(parse_iso(histories[1].created), histories[1].items)
         \o CollectHistoryEvents(Tail(histories))

\* history_events of an issue, sorted.
HistoryEvents(issue) == SortByInstant(CollectHistoryEvents(issue.histories))

\* init_status: the from-value of the earliest history event when it is
\* truthy, else the current value of the field (its name when it is a dict).
InitStatus(issue, history_events) ==
    IF history_events # <<>> /\ Truthy(history_events[1][2])
    THEN history_events[1][2]
    ELSE issue.value.v

\* The date of the first fact of the timeline of an issue.
CreationDate(issue) == DateOf(parse_iso(issue.created))

\* The first element of events: midnight UTC of the creation date.
CreationFact(issue, history_events) ==
    <<MidnightUTC(CreationDate(issue)), InitStatus(issue, history_events)>>

\* The (ts, to) facts of the history events.
ToFacts(history_events) ==
    [n \in DOMAIN history_events |-> <<history_events[n][1], history_events[n][3]>>]

\* events of an issue: the creation fact, then the history events, sorted.
Events(issue) ==
    LET history_events == HistoryEvents(issue)
    IN SortByInstant(<<CreationFact(issue, history_events)>> \o ToFacts(history_events))

\* ticket_events after the loop over the issues.
TicketEvents(iss) ==
    [key \in {iss[i].key : i \in DOMAIN iss} |->
        Events(iss[CHOOSE i \in DOMAIN iss :
                     /\ iss[i].key = key
                     /\ \A j \in DOMAIN iss : iss[j].key = key => j <= i])]

\* The labels one issue adds to all_statuses.
IssueStatuses(issue) ==
    LET history_events == HistoryEvents(issue)
    IN {InitStatus(issue, history_events)}
       \cup {history_events[n][3] : n \in DOMAIN history_events}

\* all_statuses after the loop over the issues.
AllStatuses(iss) == UNION { IssueStatuses(iss[i]) : i \in DOMAIN iss }

\* The keys of a dict in insertion order (keys are the issue positions).
KeyOrder(iss) == [i \in DOMAIN iss |-> iss[i].key]

\* dates: the wall-clock date of every fact of every timeline.
FactDates(tev) == UNION { {DateOf(tev[key][n][1]) : n \in DOMAIN tev[key]} : key \in DOMAIN tev }

Min(S) == CHOOSE x \in S : \A y \in S : x <= y

\* sorted(all_statuses) raises TypeError when None is compared with a str.
SortedRaises(S) == None \in S /\ Cardinality(S) > 1

\* sorted(S) for a set of str (or the set {None}).
RECURSIVE Sorted(_)
Sorted(S) ==
    IF S = {} THEN <<>>
    ELSE LET least == CHOOSE x \in S : \A y \in S : x = y \/ StrLess(x, y)
         IN <<least>> \o Sorted(S \ {least})

\* Scan with ts < snapshot for ts <= snapshot: a fact at midnight itself is
\* not yet seen on the row of its date.
RECURSIVE ScanStrict(_, _, _)
ScanStrict(events, snapshot, current) ==
    IF events = <<>> THEN current
    ELSE IF Instant(events[1][1]) < Instant(snapshot)
         THEN ScanStrict(Tail(events), snapshot, events[1][2])
         ELSE current

\* The inner loop of lines 71-78: the status of the last fact not later than
\* the snapshot, scanning the sorted events and stopping at the first later one.
RECURSIVE Scan(_, _, _)
Scan(events, snapshot, current) ==
    IF events = <<>> THEN current
    ELSE IF Instant(events[1][1]) <= Instant(snapshot)
         THEN Scan(Tail(events), snapshot, events[1][2])
         ELSE current

\* current of a ticket for the row of single_date.
CurrentAt(events, single_date) == Scan(events, MidnightUTC(single_date), None)

\* CountRow with count[current] += 1 inside the loop over the events: a ticket
\* is counted once for every fact that is not later than the snapshot.
RECURSIVE CountFacts(_, _, _)
CountFacts(count, events, snapshot) ==
    IF events = <<>> \/ Instant(events[1][1]) > Instant(snapshot) THEN count
    ELSE LET status == events[1][2]
             c == IF ~Truthy(status) THEN count
                  ELSE IF status \in DOMAIN count
                       THEN [count EXCEPT ![status] = @ + 1]
                       ELSE (status :> 1) @@ count
         IN CountFacts(c, Tail(events), snapshot)

RECURSIVE CountRowEveryFact(_, _, _, _)
CountRowEveryFact(tev, keys, n, single_date) ==
    IF n = 0 THEN [s \in {} |-> 0]
    ELSE CountFacts(CountRowEveryFact(tev, keys, n - 1, single_date),
                    tev[keys[n]], MidnightUTC(single_date))

\* count after the loop over the tickets, for the keys[1..n].
RECURSIVE CountRow(_, _, _, _)
CountRow(tev, keys, n, single_date) ==
    IF n = 0 THEN [s \in {} |-> 0]
    ELSE LET count == CountRow(tev, keys, n - 1, single_date)
             current == CurrentAt(tev[keys[n]], single_date)
         IN IF Truthy(current)
            THEN IF current \in DOMAIN count
                 THEN [count EXCEPT ![current] = @ + 1]
                 ELSE (current :> 1) @@ count
            ELSE count

\* count[s] of a defaultdict(int).
Get0(count, s) == IF s \in DOMAIN count THEN count[s] ELSE 0

\* One row of daily_counts: the date, then count[s] for s in status_list.
Row(tev, keys, status_list, single_date) ==
    LET count == CountRow(tev, keys, Len(keys), single_date)
    IN [date |-> single_date,
        counts |-> [i \in DOMAIN status_list |-> Get0(count, status_list[i])]]

\* daily_counts: one row for start_date + n, n in range(days).
DailyCounts(tev, keys, status_list, start_date, end_date) ==
    LET days == IF end_date - start_date + 1 > 0 THEN end_date - start_date + 1 ELSE 0
    IN [n \in 1..days |-> Row(tev, keys, status_list, start_date + n - 1)]

\* -------------------------------------------------- extract_flow_counts

\* The (key, datestr, _from, _to) tuples of the items of one history that are
\* about the analysed field.  datestr is the wall-clock date of the history.
RECURSIVE ItemTransitions(_, _, _)
ItemTransitions(key, datestr, items) ==
    IF items = <<>> THEN <<>>
    ELSE LET item == items[1]
             rest == ItemTransitions(key, datestr, Tail(items))
         IN IF item.field = FieldId
            THEN <<<<key, datestr, OrEmpty(item.fromString), OrEmpty(item.toString)>>>>
                 \o rest
            ELSE rest

RECURSIVE HistoryTransitions(_, _)
HistoryTransitions(key, histories) ==
    IF histories = <<>> THEN <<>>
    ELSE ItemTransitions(key, DateOf(parse_iso(histories[1].created)), histories[1].items)
         \o HistoryTransitions(key, Tail(histories))

\* transitions after the loop over the issues.
RECURSIVE Transitions(_)
Transitions(iss) ==
    IF iss = <<>> THEN <<>>
    ELSE HistoryTransitions(iss[1].key, iss[1].histories) \o Transitions(Tail(iss))

\* Statuses with statuses.update([_to]): the from labels are left out.
StatusesToOnly(trans) == { trans[i][4] : i \in DOMAIN trans }

\* statuses after the loop over the issues.
Statuses(trans) == UNION { {trans[i][3], trans[i][4]} : i \in DOMAIN trans }

\* The matrix written when the configuration file does not exist.
BootstrapMatrix(statuses) == [s \in statuses |-> [t \in statuses |-> "IGNORE"]]

\* Action with 'IN' as the default of a pair that is not in the matrix.
ActionDefaultIn(cfg, from, to) ==
    IF from \in DOMAIN cfg
    THEN IF to \in DOMAIN cfg[from] THEN cfg[from][to] ELSE "IN"
    ELSE "IN"

\* config.get(_from, {}).get(_to, 'IGNORE')
Action(cfg, from, to) ==
    IF from \in DOMAIN cfg
    THEN IF to \in DOMAIN cfg[from] THEN cfg[from][to] ELSE "IGNORE"
    ELSE "IGNORE"

\* {'IN': 0, 'OUT': 0}
ZeroCounts == ("IN" :> 0) @@ ("OUT" :> 0)

\* An empty dict; a dict is kept in insertion order: its keys, and the value of each.
EmptyDict == [keys |-> <<>>, val |-> <<>>]

\* d[k][what] += 1 on a defaultdict(lambda: {'IN': 0, 'OUT': 0}).
Incr(d, k, what) ==
    LET e == IF k \in DOMAIN d.val
             THEN d
             ELSE [keys |-> Append(d.keys, k),
                   val |-> (k :> ZeroCounts) @@ d.val]
    IN [e EXCEPT !.val[k][what] = @ + 1]

\* ticket_date_counts after the loop over transitions[1..n].
RECURSIVE TicketDateCounts(_, _, _)
TicketDateCounts(cfg, trans, n) ==
    IF n = 0 THEN EmptyDict
    ELSE LET d == TicketDateCounts(cfg, trans, n - 1)
             k == <<trans[n][1], trans[n][2]>>
             action == Action(cfg, trans[n][3], trans[n][4])
         IN CASE action = "IN" -> Incr(d, k, "IN")
              [] action = "OUT" -> Incr(d, k, "OUT")
              [] action = "INOUT" -> Incr(Incr(d, k, "IN"), k, "OUT")
              [] OTHER -> d

\* start_date: the earliest date of a transition, today when there is none.
FlowStartDate(trans, now) ==
    IF trans # <<>> THEN Min({trans[i][2] : i \in DOMAIN trans}) ELSE now

\* FlowCounts with the tie counted as IN alone.
RECURSIVE FlowCountsTieIn(_, _)
FlowCountsTieIn(tdc, n) ==
    IF n = 0 THEN EmptyDict
    ELSE LET f == FlowCountsTieIn(tdc, n - 1)
             datestr == tdc.keys[n][2]
             in_ct == tdc.val[tdc.keys[n]]["IN"]
             out_ct == tdc.val[tdc.keys[n]]["OUT"]
         IN IF in_ct >= out_ct THEN Incr(f, datestr, "IN")
            ELSE Incr(f, datestr, "OUT")

\* flow_counts after the loop over the first n items of ticket_date_counts.
RECURSIVE FlowCounts(_, _)
FlowCounts(tdc, n) ==
    IF n = 0 THEN EmptyDict
    ELSE LET f == FlowCounts(tdc, n - 1)
             datestr == tdc.keys[n][2]
             in_ct == tdc.val[tdc.keys[n]]["IN"]
             out_ct == tdc.val[tdc.keys[n]]["OUT"]
         IN IF in_ct > out_ct THEN Incr(f, datestr, "IN")
            ELSE IF in_ct < out_ct THEN Incr(f, datestr, "OUT")
            ELSE Incr(Incr(f, datestr, "IN"), datestr, "OUT")

\* FlowRows without the zero rows: only the dates that are in flow_counts.
FlowRowsSparse(f, start_date, end_date) ==
    LET days == IF end_date - start_date + 1 > 0 THEN end_date - start_date + 1 ELSE 0
        dense == [n \in 1..days |-> start_date + n - 1]
        HasFlow(ds) == ds \in DOMAIN f.val
        kept == SelectSeq(dense, HasFlow)
    IN [n \in DOMAIN kept |-> [date |-> kept[n], counts |-> f.val[kept[n]]]]

\* flow_counts.get(ds, {'IN': 0, 'OUT': 0})
FlowGet(f, ds) == IF ds \in DOMAIN f.val THEN f.val[ds] ELSE ZeroCounts

\* The rows written to in-out_flow.csv: one for start_date + n, n in range(days).
FlowRows(f, start_date, end_date) ==
    LET days == IF end_date - start_date + 1 > 0 THEN end_date - start_date + 1 ELSE 0
    IN [n \in 1..days |->
          LET ds == start_date + n - 1
          IN [date |-> ds, counts |-> FlowGet(f, ds)]]

\* ------------------------------------------------------------------ main

Init ==
    /\ issues \in Inputs
    /\ today = 0
    /\ \/ configExists = FALSE /\ config = <<>>
       \/ configExists = TRUE /\ config \in Matrices
    /\ pc = "start"
    /\ ticket_events = <<>>
    /\ all_statuses = {}
    /\ csv_files = <<>>
    /\ stat_csv = <<>>
    /\ transitions = <<>>
    /\ ticket_date_counts = EmptyDict
    /\ flow_counts = EmptyDict
    /\ flow_csv = <<>>

\* main, line 194: extract_field_counts returns, having written
\* stat_status.csv unless the input has no issue.
ExtractFieldCounts ==
    /\ pc = "start"
    /\ \E now \in Todays :
         LET tev == TicketEvents(issues)
             statuses == AllStatuses(issues)
             dates == FactDates(tev)
         IN /\ ~SortedRaises(statuses)
            /\ today' = now
            /\ ticket_events' = tev
            /\ all_statuses' = statuses
            /\ IF dates = {}
               THEN /\ csv_files' = <<>>
                    /\ stat_csv' = stat_csv
               ELSE /\ csv_files' = <<"stat_status.csv">>
                    /\ stat_csv' = <<[header |-> <<"Date">> \o Sorted(statuses),
                                      rows |-> DailyCounts(tev, KeyOrder(issues),
                                                           Sorted(statuses),
                                                           Min(dates), now)]>>
    /\ pc' = "field_counts_done"
    /\ UNCHANGED <<issues, configExists, config, transitions,
                   ticket_date_counts, flow_counts, flow_csv>>

\* main, line 194: sorted(all_statuses) raises TypeError at line 65, before
\* anything is written, and the exception ends the process.
ExtractFieldCountsRaises ==
    /\ pc = "start"
    /\ SortedRaises(AllStatuses(issues))
    /\ \E now \in Todays : today' = now
    /\ ticket_events' = TicketEvents(issues)
    /\ all_statuses' = AllStatuses(issues)
    /\ pc' = "raised"
    /\ UNCHANGED <<issues, configExists, config, csv_files, stat_csv,
                   transitions, ticket_date_counts, flow_counts, flow_csv>>

\* main, lines 195-197: nothing to process.
NoData ==
    /\ pc = "field_counts_done"
    /\ csv_files = <<>>
    /\ pc' = "done"
    /\ UNCHANGED <<issues, today, configExists, config, ticket_events, all_statuses,
                   csv_files, stat_csv, transitions, ticket_date_counts, flow_counts,
                   flow_csv>>

\* FlowBootstrap without the return after the matrix is written: the pass goes
\* on with the matrix it has just written and writes in-out_flow.csv.
FlowBootstrapNoReturn ==
    /\ pc = "field_counts_done"
    /\ csv_files # <<>>
    /\ ~configExists
    /\ LET trans == Transitions(issues)
           matrix == BootstrapMatrix(Statuses(trans))
           tdc == TicketDateCounts(matrix, trans, Len(trans))
           f == FlowCounts(tdc, Len(tdc.keys))
       IN /\ transitions' = trans
          /\ config' = matrix
          /\ ticket_date_counts' = tdc
          /\ flow_counts' = f
          /\ flow_csv' = <<[header |-> <<"Date", "IN", "OUT">>,
                            rows |-> FlowRows(f, FlowStartDate(trans, today), today)]>>
    /\ configExists' = TRUE
    /\ pc' = "done"
    /\ UNCHANGED <<issues, today, ticket_events, all_statuses, csv_files, stat_csv>>

\* main, lines 199-201, no configuration file: extract_flow_counts writes the
\* all-IGNORE matrix and returns None.
FlowBootstrap ==
    /\ pc = "field_counts_done"
    /\ csv_files # <<>>
    /\ ~configExists
    /\ transitions' = Transitions(issues)
    /\ config' = BootstrapMatrix(Statuses(Transitions(issues)))
    /\ configExists' = TRUE
    /\ pc' = "done"
    /\ UNCHANGED <<issues, today, ticket_events, all_statuses, csv_files, stat_csv,
                   ticket_date_counts, flow_counts, flow_csv>>

\* main, lines 199-201, with a configuration file: extract_flow_counts
\* classifies the transitions and writes in-out_flow.csv.
FlowClassify ==
    /\ pc = "field_counts_done"
    /\ csv_files # <<>>
    /\ configExists
    /\ LET trans == Transitions(issues)
           tdc == TicketDateCounts(config, trans, Len(trans))
           f == FlowCounts(tdc, Len(tdc.keys))
       IN /\ transitions' = trans
          /\ ticket_date_counts' = tdc
          /\ flow_counts' = f
          /\ flow_csv' = <<[header |-> <<"Date", "IN", "OUT">>,
                            rows |-> FlowRows(f, FlowStartDate(trans, today), today)]>>
    /\ pc' = "done"
    /\ UNCHANGED <<issues, today, configExists, config, ticket_events, all_statuses,
                   csv_files, stat_csv>>

Next ==
    \/ ExtractFieldCounts
    \/ ExtractFieldCountsRaises
    \/ NoData
    \/ FlowBootstrap
    \/ FlowClassify

Spec == Init /\ [][Next]_vars

\* ============================================================ properties

\* ---- what the claims speak of, read off the input and the written files

\* The snapshot table as written to stat_status.csv.
StatTable == stat_csv[1]

\* The flow table as written to in-out_flow.csv.
FlowTable == flow_csv[1]

\* The column of a label in a row of the snapshot table (0: no such column).
ColumnOf(label) == IndexOf(Tail(StatTable.header), label, 1)

\* The count a row of the snapshot table shows under a label.
Shown(row, label) == IF ColumnOf(label) = 0 THEN 0 ELSE row.counts[ColumnOf(label)]

RECURSIVE SumSeq(_)
SumSeq(seq) == IF seq = <<>> THEN 0 ELSE seq[1] + SumSeq(Tail(seq))

\* The keys of the entities of the input.
EntityKeys == {issues[i].key : i \in DOMAIN issues}

\* The issue of a key.
IssueOf(key) == issues[CHOOSE i \in DOMAIN issues : issues[i].key = key]

\* Midnight UTC of a calendar date, as an instant.
MidnightInstant(d) == d * 24

\* The facts of the timeline of an entity that are not later than midnight UTC
\* of date d (positions in ticket_events[key]).
FactsUpTo(key, d) ==
    {n \in DOMAIN ticket_events[key] :
        Instant(ticket_events[key][n][1]) <= MidnightInstant(d)}

\* state_as_of: the state of the last fact not later than midnight UTC of d,
\* None when there is none.
StateAsOf(key, d) ==
    IF FactsUpTo(key, d) = {} THEN None
    ELSE ticket_events[key][CHOOSE n \in FactsUpTo(key, d) :
                                \A m \in FactsUpTo(key, d) : m <= n][2]

\* The entity of the worked example: created 2024-01-01 (day 1),
\* Open -> InProgress at 2024-01-03T10:00Z, InProgress -> Done at
\* 2024-01-05T09:00Z.
ExampleIssue ==
    [key |-> 1, created |-> Stamp(1, 0, "+00:00"),
     value |-> [isdict |-> FALSE, v |-> "Open"],
     histories |-> << [created |-> Stamp(3, 10, "+00:00"),
                       items |-> <<Item("status", "Open", "InProgress")>>],
                      [created |-> Stamp(5, 9, "+00:00"),
                       items |-> <<Item("status", "InProgress", "Done")>>] >>]

\* A row counts the one entity of the input under exactly this label.
CountsOnlyAs(row, label) ==
    /\ Shown(row, label) = 1
    /\ SumSeq(row.counts) = 1

\* ---- C1

\* C1 as stated: the entity of the example is counted as Open on the rows of
\* 2024-01-01 and 2024-01-02, as InProgress on the rows of 2024-01-03 and
\* 2024-01-04 (from the date of the transition on), and as Done on every row
\* from 2024-01-05 through today.
C1_AsStated ==
    (issues = <<ExampleIssue>> /\ stat_csv # <<>>) =>
        \A n \in DOMAIN StatTable.rows :
            LET row == StatTable.rows[n]
            IN /\ row.date \in {1, 2} => CountsOnlyAs(row, "Open")
               /\ row.date \in {3, 4} => CountsOnlyAs(row, "InProgress")
               /\ row.date >= 5 => CountsOnlyAs(row, "Done")

\* C1, amended: every row counts each entity under the state of its last fact
\* whose instant is not later than midnight UTC of the row's date, so a
\* transition during a day shows from the next day's row on.  The entity of the
\* example is counted as Open on the rows of 2024-01-01 to 2024-01-03, as
\* InProgress on those of 2024-01-04 and 2024-01-05, and as Done on every row
\* from 2024-01-06 through today.
C1_SnapshotAtMidnight ==
    stat_csv # <<>> =>
        /\ \A n \in DOMAIN StatTable.rows :
             \A label \in all_statuses \ {None, ""} :
                Shown(StatTable.rows[n], label) =
                    Cardinality({key \in EntityKeys :
                                    StateAsOf(key, StatTable.rows[n].date) = label})
        /\ issues = <<ExampleIssue>> =>
             \A n \in DOMAIN StatTable.rows :
                LET row == StatTable.rows[n]
                IN /\ row.date \in {1, 2, 3} => CountsOnlyAs(row, "Open")
                   /\ row.date \in {4, 5} => CountsOnlyAs(row, "InProgress")
                   /\ row.date >= 6 => CountsOnlyAs(row, "Done")

\* The table of the example has been written on day 7: it has the rows of
\* 2024-01-01 to 2024-01-07.
C1_Witness ==
    /\ issues = <<ExampleIssue>>
    /\ stat_csv # <<>>
    /\ today = 7
    /\ Len(StatTable.rows) = 7

\* ---- C2

\* The entity of a key adds 1 to some count of the row of date d.
Contributes(key, d) == Truthy(CurrentAt(ticket_events[key], d))

\* C2: on every row whose midnight UTC is earlier than midnight UTC of the
\* creation date of an entity, the entity contributes to no count.
C2_NotCountedBeforeCreation ==
    stat_csv # <<>> =>
        \A n \in DOMAIN StatTable.rows : \A key \in EntityKeys :
            MidnightInstant(StatTable.rows[n].date)
                < Instant(MidnightUTC(CreationDate(IssueOf(key))))
            => ~Contributes(key, StatTable.rows[n].date)

\* ---- the transitions of the input, read off the document

\* The changelog items about the analysed field: <<i, j, n>> is item n of
\* history j of issue i.
TrackedItems ==
    UNION { UNION { { <<i, j, n>> : n \in {m \in DOMAIN issues[i].histories[j].items :
                                            issues[i].histories[j].items[m].field = FieldId} } :
                    j \in DOMAIN issues[i].histories } :
            i \in DOMAIN issues }

ItemKey(p) == issues[p[1]].key

\* The calendar date of a transition: the wall-clock date of its history.
ItemDate(p) == DateOf(parse_iso(issues[p[1]].histories[p[2]].created))

\* The from and to labels of a transition, an absent or empty value being read
\* as the empty label.
ItemFrom(p) == OrEmpty(issues[p[1]].histories[p[2]].items[p[3]].fromString)

ItemTo(p) == OrEmpty(issues[p[1]].histories[p[2]].items[p[3]].toString)

\* The pair of a transition is in the matrix.
InMatrix(p) == ItemFrom(p) \in DOMAIN config /\ ItemTo(p) \in DOMAIN config[ItemFrom(p)]

\* The transition counts as IN (what = "IN") or as OUT: the matrix classifies
\* it so, or INOUT.
CountsAs(p, what) == InMatrix(p) /\ config[ItemFrom(p)][ItemTo(p)] \in {what, "INOUT"}

\* The transition is classified, that is, not IGNORE.
Classified(p) == CountsAs(p, "IN") \/ CountsAs(p, "OUT")

\* The raw count of a pair (entity, date).
RawCount(key, d, what) ==
    Cardinality({p \in TrackedItems : ItemKey(p) = key /\ ItemDate(p) = d /\ CountsAs(p, what)})

\* The pairs (entity, date) with at least one transition.
TransitionPairs == { <<ItemKey(p), ItemDate(p)>> : p \in TrackedItems }

\* The IN or OUT total of a date in flow_counts.
DayTotal(d, what) == FlowGet(flow_counts, d)[what]

\* ---- C3

\* C3 as stated: a pair with IN_count > OUT_count adds 1 to the IN total of its
\* date and nothing to OUT, one with OUT_count > IN_count adds 1 to OUT and
\* nothing to IN, and one with equal counts, both zero included, adds 1 to both.
C3_AsStated ==
    flow_csv # <<>> =>
        \A d \in {pr[2] : pr \in TransitionPairs} :
            /\ DayTotal(d, "IN") =
                 Cardinality({pr \in TransitionPairs :
                                 pr[2] = d /\ RawCount(pr[1], d, "IN") >= RawCount(pr[1], d, "OUT")})
            /\ DayTotal(d, "OUT") =
                 Cardinality({pr \in TransitionPairs :
                                 pr[2] = d /\ RawCount(pr[1], d, "OUT") >= RawCount(pr[1], d, "IN")})

\* The pair has a classified transition.
HasClassified(pr) == RawCount(pr[1], pr[2], "IN") + RawCount(pr[1], pr[2], "OUT") > 0

\* C3, amended: a pair with IN_count > OUT_count adds 1 to the IN total of its
\* date and nothing to OUT, one with OUT_count > IN_count adds 1 to OUT and
\* nothing to IN, one with equal counts that are not zero adds 1 to both, and
\* one whose transitions are all IGNORE (both counts zero) adds nothing.
C3_NetDirection ==
    flow_csv # <<>> =>
        \A d \in {pr[2] : pr \in TransitionPairs} :
            /\ DayTotal(d, "IN") =
                 Cardinality({pr \in TransitionPairs :
                                 /\ pr[2] = d
                                 /\ HasClassified(pr)
                                 /\ RawCount(pr[1], d, "IN") >= RawCount(pr[1], d, "OUT")})
            /\ DayTotal(d, "OUT") =
                 Cardinality({pr \in TransitionPairs :
                                 /\ pr[2] = d
                                 /\ HasClassified(pr)
                                 /\ RawCount(pr[1], d, "OUT") >= RawCount(pr[1], d, "IN")})

\* The flow table has been written for an input with a pair of equal counts
\* that are not zero and a pair whose transitions are all IGNORE.
C3_Witness ==
    /\ flow_csv # <<>>
    /\ \E pr \in TransitionPairs :
          /\ RawCount(pr[1], pr[2], "IN") = RawCount(pr[1], pr[2], "OUT")
          /\ HasClassified(pr)
    /\ \E pr \in TransitionPairs : ~HasClassified(pr)

\* ---- C4

\* The dates of the rows of the flow table, in the order of the file.
FlowRowDates == [n \in DOMAIN FlowTable.rows |-> FlowTable.rows[n].date]

\* The calendar dates from first to last, ascending.
DateRange(first, last) ==
    [n \in 1..(IF last - first + 1 > 0 THEN last - first + 1 ELSE 0) |-> first + n - 1]

\* Every row of a date without a classified transition shows IN=0 and OUT=0.
ZeroFilled ==
    \A n \in DOMAIN FlowTable.rows :
        (\A p \in TrackedItems : Classified(p) => ItemDate(p) # FlowTable.rows[n].date)
        => FlowTable.rows[n].counts = ZeroCounts

\* C4 as stated: the rows of the flow table are the dates from the earliest
\* date of a classified (non-IGNORE) transition to today, ascending, each once,
\* and no other date; dates without classified transition show 0/0.
C4_AsStated ==
    (flow_csv # <<>> /\ \E p \in TrackedItems : Classified(p)) =>
        /\ FlowRowDates =
             DateRange(Min({ItemDate(p) : p \in {q \in TrackedItems : Classified(q)}}), today)
        /\ ZeroFilled

\* C4, amended: the rows of the flow table are the dates from the earliest
\* date of any transition of the tracked field, classified or not, to today
\* (today alone when the input has no transition), ascending, each once, and no
\* other date; dates without classified transition show 0/0.
C4_RowsFromEarliestTransition ==
    flow_csv # <<>> =>
        /\ FlowRowDates =
             DateRange(IF TrackedItems = {} THEN today
                       ELSE Min({ItemDate(p) : p \in TrackedItems}), today)
        /\ ZeroFilled

\* The flow table has been written for an input whose earliest transition is
\* IGNORE and earlier than its earliest classified one, with a row of 0/0.
C4_Witness ==
    /\ flow_csv # <<>>
    /\ \E p \in TrackedItems : Classified(p)
    /\ Min({ItemDate(p) : p \in TrackedItems})
         < Min({ItemDate(p) : p \in {q \in TrackedItems : Classified(q)}})
    /\ \E n \in DOMAIN FlowTable.rows :
          /\ FlowTable.rows[n].counts = ZeroCounts
          /\ FlowTable.rows[n].date > Min({ItemDate(p) : p \in TrackedItems})
    /\ \E n \in DOMAIN FlowTable.rows : FlowTable.rows[n].counts # ZeroCounts

\* ---- C5

\* C5 as stated: while no matrix file exists, no step of the run writes a
\* table: neither stat_status.csv nor in-out_flow.csv exists after it.
C5_AsStated ==
    [][~configExists => (stat_csv' = <<>> /\ flow_csv' = <<>>)]_vars

\* C5, amended: a run that starts without a matrix file never writes the flow
\* table; it writes the snapshot table first (when the input has an issue), and
\* the step that persists the bootstrap matrix finds that table written and
\* ends the run.
C5_BootstrapWritesNoFlowTable ==
    [][~configExists =>
          /\ flow_csv' = <<>>
          /\ configExists' => (stat_csv' # <<>> /\ stat_csv' = stat_csv /\ pc' = "done")]_vars

\* A run has persisted the bootstrap matrix: it ended without a flow table,
\* with the snapshot table written.
C5_Witness ==
    /\ pc = "done"
    /\ csv_files # <<>>
    /\ configExists
    /\ flow_csv = <<>>
    /\ stat_csv # <<>>

\* ---- C6

\* The labels appearing as the from or the to of a transition of the input.
TransitionLabels == UNION { {ItemFrom(p), ItemTo(p)} : p \in TrackedItems }

\* The run has taken the bootstrap branch: it ended after the snapshot pass
\* returned files, without a flow table.
Bootstrapped == pc = "done" /\ csv_files # <<>> /\ flow_csv = <<>>

\* C6: the matrix persisted by the bootstrap has the labels appearing as the
\* from or the to of any transition of the input as its row keys and as the
\* column keys of every row, and IGNORE everywhere; it is determined by the
\* input alone, so a second bootstrap on the same input persists the same one.
C6_BootstrapMatrix ==
    Bootstrapped =>
        /\ configExists
        /\ DOMAIN config = TransitionLabels
        /\ \A from \in DOMAIN config :
              /\ DOMAIN config[from] = TransitionLabels
              /\ \A to \in DOMAIN config[from] : config[from][to] = "IGNORE"

\* A bootstrap has persisted a matrix with a label that appears only as a to
\* and a label that appears only as a from.
C6_Witness ==
    /\ Bootstrapped
    /\ \E label \in DOMAIN config : \A p \in TrackedItems : ItemFrom(p) # label
    /\ \E label \in DOMAIN config : \A p \in TrackedItems : ItemTo(p) # label

\* ---- C7

\* The raw counts of every pair (entity, date) are the numbers of its
\* transitions that the matrix classifies, a pair absent from the matrix
\* counting for nothing.
RawCountsFromMatrixOnly ==
    /\ \A k \in DOMAIN ticket_date_counts.val :
          /\ k \in TransitionPairs
          /\ ticket_date_counts.val[k]["IN"] = RawCount(k[1], k[2], "IN")
          /\ ticket_date_counts.val[k]["OUT"] = RawCount(k[1], k[2], "OUT")
    /\ \A pr \in TransitionPairs :
          pr \notin DOMAIN ticket_date_counts.val
          => RawCount(pr[1], pr[2], "IN") = 0 /\ RawCount(pr[1], pr[2], "OUT") = 0

\* C7: a run that finds a matrix file never writes it, whatever the pairs and
\* labels of the input, and a transition whose pair is absent from the matrix
\* adds nothing to any raw IN or OUT count.
C7_MatrixReadOnly ==
    [][configExists =>
          /\ configExists'
          /\ config' = config
          /\ flow_csv' # <<>> => RawCountsFromMatrixOnly']_vars

\* The flow pass has run with a matrix that classifies a transition of the
\* input and has no row for the from label of another.
C7_Witness ==
    /\ pc = "done"
    /\ flow_csv # <<>>
    /\ \E p \in TrackedItems : ItemFrom(p) \notin DOMAIN config
    /\ \E p \in TrackedItems : Classified(p)

\* ---- C8

\* C8: when the input has an entity, the snapshot pass leaves a table with one
\* row for every date from the earliest date of a fact to today, ascending,
\* and with the sorted labels of the dataset as its columns.
C8_OneRowPerDate ==
    (pc # "start" /\ issues # <<>>) =>
        /\ stat_csv # <<>>
        /\ [n \in DOMAIN StatTable.rows |-> StatTable.rows[n].date]
             = DateRange(Min(FactDates(ticket_events)), today)
        /\ \A n \in DOMAIN StatTable.rows :
              Len(StatTable.rows[n].counts) = Len(StatTable.header) - 1
        /\ {StatTable.header[c] : c \in 2..Len(StatTable.header)} = all_statuses
        /\ \A c \in 2..(Len(StatTable.header) - 1) :
              StrLess(StatTable.header[c], StatTable.header[c + 1])

\* ---- C9

\* C9: the counts of every row of the snapshot table add up to the number of
\* entities that have a state at the row's date, each entity counting once at
\* most, so to the number of entities of the input at most.
C9_RowSumBounded ==
    stat_csv # <<>> =>
        \A n \in DOMAIN StatTable.rows :
            /\ SumSeq(StatTable.rows[n].counts) <= Cardinality(EntityKeys)
            /\ SumSeq(StatTable.rows[n].counts) =
                 Cardinality({key \in EntityKeys :
                                 Truthy(StateAsOf(key, StatTable.rows[n].date))})

\* A table has a row that counts two entities under two different labels, and
\* a row that counts fewer entities than the input has.
C9_Witness ==
    /\ stat_csv # <<>>
    /\ \E n \in DOMAIN StatTable.rows :
          /\ SumSeq(StatTable.rows[n].counts) = 2
          /\ \E c \in DOMAIN StatTable.rows[n].counts : StatTable.rows[n].counts[c] = 1
    /\ \E n \in DOMAIN StatTable.rows :
          SumSeq(StatTable.rows[n].counts) < Cardinality(EntityKeys)

\* ---- C10

\* C10: every reconstructed timeline is non-empty and non-decreasing by
\* instant, and its first fact is the fact at midnight UTC of the creation
\* date, carrying the initial state.
C10_TimelineStartsAtCreation ==
    pc # "start" =>
        \A key \in EntityKeys :
            LET events == ticket_events[key]
            IN /\ events # <<>>
               /\ \A n \in 1..(Len(events) - 1) :
                     Instant(events[n][1]) <= Instant(events[n + 1][1])
               /\ events[1] = <<MidnightUTC(CreationDate(IssueOf(key))),
                                InitStatus(IssueOf(key), HistoryEvents(IssueOf(key)))>>

\* ---- C11

\* A from, to or current value that carries no state: null or the empty string.
NoValue(x) == x = None \/ x = ""

\* The changelog items of an entity about the analysed field.
ItemsOf(key) == {p \in TrackedItems : ItemKey(p) = key}

\* The instant of a transition: the timestamp of its history.
ItemInstant(p) == Instant(parse_iso(issues[p[1]].histories[p[2]].created))

\* The from-value of a transition as the document has it.
RawFrom(p) == issues[p[1]].histories[p[2]].items[p[3]].fromString

\* Transition p comes before transition q of the same issue: it is earlier by
\* instant, or of the same instant and before q in the document.
ComesBefore(p, q) ==
    \/ ItemInstant(p) < ItemInstant(q)
    \/ /\ ItemInstant(p) = ItemInstant(q)
       /\ p[2] < q[2] \/ (p[2] = q[2] /\ p[3] < q[3])

\* The earliest transition of an entity that has one.
EarliestItem(key) ==
    CHOOSE p \in ItemsOf(key) : \A q \in ItemsOf(key) \ {p} : ComesBefore(p, q)

\* The current value of the field of an entity: the value itself, or its name
\* attribute when it is a structured object.
CurrentValue(key) == IssueOf(key).value.v

\* The label of the fact at midnight UTC of the creation date that stands first
\* among the facts of that instant.
InitialStateOf(key) ==
    LET events == ticket_events[key]
        midnight == MidnightInstant(CreationDate(IssueOf(key)))
        n == CHOOSE m \in DOMAIN events :
                 /\ Instant(events[m][1]) = midnight
                 /\ \A l \in 1..(m - 1) : Instant(events[l][1]) # midnight
    IN events[n][2]

\* C11: the initial state of an entity is the from-value of its earliest
\* transition of the tracked field (earliest by instant, first in the document
\* on ties) when there is one and its from-value is a value; otherwise it is the
\* current value of the field, by its name when it is structured.  An entity
\* without transitions whose current value is {"name": "Closed"} has a timeline
\* of exactly one fact, labelled "Closed".
C11_InitialState ==
    pc # "start" =>
        \A key \in EntityKeys :
            /\ InitialStateOf(key) =
                  IF ItemsOf(key) # {} /\ ~NoValue(RawFrom(EarliestItem(key)))
                  THEN RawFrom(EarliestItem(key))
                  ELSE CurrentValue(key)
            /\ (ItemsOf(key) = {} /\ IssueOf(key).value = [isdict |-> TRUE, v |-> "Closed"])
                  => /\ Len(ticket_events[key]) = 1
                     /\ ticket_events[key][1][2] = "Closed"

\* One entity has two transitions of the same instant with different
\* from-values and starts in the from-value of the first of them, which is not
\* its current value; another has no transition, the current value
\* {"name": "Closed"} and the one-fact timeline.
C11_Witness ==
    /\ pc # "start"
    /\ \E key \in EntityKeys :
          \E p, q \in ItemsOf(key) :
             /\ ItemInstant(p) = ItemInstant(q)
             /\ RawFrom(p) # RawFrom(q)
             /\ p = EarliestItem(key)
             /\ InitialStateOf(key) = RawFrom(p)
             /\ InitialStateOf(key) # CurrentValue(key)
    /\ \E key \in EntityKeys :
          /\ ItemsOf(key) = {}
          /\ IssueOf(key).value.isdict
          /\ ticket_events[key] = <<<<MidnightUTC(CreationDate(IssueOf(key))), "Closed">>>>

\* Some entity has an earliest transition whose from-value is null, and starts
\* in its current value.
C11_WitnessNullFrom ==
    /\ pc # "start"
    /\ \E key \in EntityKeys :
          /\ ItemsOf(key) # {}
          /\ RawFrom(EarliestItem(key)) = None
          /\ InitialStateOf(key) = CurrentValue(key)

\* ---- C12

\* The (from, to) pairs of the transitions of an entity as the snapshot pass
\* holds them in history_events.
SnapshotPairs(key) ==
    LET history_events == HistoryEvents(IssueOf(key))
    IN {<<history_events[n][2], history_events[n][3]>> : n \in DOMAIN history_events}

\* The (from, to) pairs of the transitions of an entity as the flow pass holds
\* them in transitions.
FlowPairs(key) ==
    {<<transitions[i][3], transitions[i][4]>> :
        i \in {j \in DOMAIN transitions : transitions[j][1] = key}}

\* The flow pass has read the transitions of the input.
FlowPassRan == pc = "done" /\ csv_files # <<>>

\* C12: in both passes a null or empty from-value, to-value or current value is
\* held as one no-value marker and never as the empty-string label: no fact of
\* a timeline, no label of the dataset and no transition of the flow pass
\* carries the label "", and the two passes hold the same (from, to) pair for
\* the same transition.
C12_NoValueMarker ==
    /\ pc # "start" =>
          /\ "" \notin all_statuses
          /\ \A key \in EntityKeys :
                \A n \in DOMAIN ticket_events[key] : ticket_events[key][n][2] # ""
    /\ \A i \in DOMAIN transitions : transitions[i][3] # "" /\ transitions[i][4] # ""
    /\ FlowPassRan => \A key \in EntityKeys : SnapshotPairs(key) = FlowPairs(key)

====
